---- MODULE Spec2Model ----
(***************************************************************************)
(* Model of barry_energy.BarryEnergyAPI (src/barry_energy/__init__.py): a  *)
(* JSON-RPC client facade with four domain operations funnelled through    *)
(* _execute/_do_request, and a few clock helpers.                          *)
(*                                                                         *)
(* A datetime is [sec, us]: whole seconds since 00:00:00 of day 0 and the  *)
(* microsecond field.  A timedelta is Python's normalised triple           *)
(* [days, seconds, microseconds].  A wire timestamp (the text produced by  *)
(* strftime or received from the service) is the tuple                     *)
(* <<day, hour, minute, second, offset-suffix>>.  A Python dict is a       *)
(* function; a JSON object is a record; a raised exception is the record   *)
(* [raised |-> TRUE, exc, msg].                                            *)
(***************************************************************************)
EXTENDS Integers, Sequences, FiniteSets, TLC

VARIABLES api_token, op, args, posted, response, outcome,
          clock, hpc, ys, ye, nowv, reads

vars == <<api_token, op, args, posted, response, outcome,
          clock, hpc, ys, ye, nowv, reads>>

(* ------------------------------ bounds --------------------------------- *)
MaxDay == 2
MaxRecs == 2
MaxClockDay == 2

(* --------------------------- time arithmetic --------------------------- *)
SecondsPerMinute == 60
SecondsPerHour == 3600
SecondsPerDay == 86400
MicrosPerSecond == 1000000

DateTime(sec, us) == [sec |-> sec, us |-> us]

\* timedelta(days=, seconds=, microseconds=) with Python's normalisation:
\* 0 <= seconds < 86400, 0 <= microseconds < 10^6, days carries the sign.
timedelta(d, s, u) ==
    LET s1 == s + (u \div MicrosPerSecond)
        u1 == u % MicrosPerSecond
        d1 == d + (s1 \div SecondsPerDay)
        s2 == s1 % SecondsPerDay
    IN  [days |-> d1, seconds |-> s2, microseconds |-> u1]

\* datetime.__sub__(a, b)
dt_sub(a, b) == timedelta(0, a.sec - b.sec, a.us - b.us)

\* timedelta.__neg__ and timedelta.__abs__
td_neg(t) == timedelta(-t.days, -t.seconds, -t.microseconds)
td_abs(t) == IF t.days < 0 THEN td_neg(t) ELSE t

\* timedelta.__lt__: comparison of the normalised triples
td_lt(a, b) ==
    \/ a.days < b.days
    \/ a.days = b.days /\ a.seconds < b.seconds
    \/ a.days = b.days /\ a.seconds = b.seconds /\ a.microseconds < b.microseconds

\* datetime.__add__(d, t)
dt_add(d, t) ==
    LET u == d.us + t.microseconds
    IN  DateTime(d.sec + t.days * SecondsPerDay + t.seconds + (u \div MicrosPerSecond),
                 u % MicrosPerSecond)

\* date.strftime('%Y-%m-%dT%H:%M:%SZ'): second precision, the microsecond
\* field is not printed, the suffix is the literal "Z".
strftime(d) ==
    << d.sec \div SecondsPerDay,
       (d.sec % SecondsPerDay) \div SecondsPerHour,
       (d.sec % SecondsPerHour) \div SecondsPerMinute,
       d.sec % SecondsPerMinute,
       "Z" >>

\* sdate.replace("Z", "+00:00")
replaceZ(s) == IF s[5] = "Z" THEN <<s[1], s[2], s[3], s[4], "+00:00">> ELSE s

\* The UTC offset, in seconds, that an ISO-8601 offset suffix denotes.
utcoffset(suffix) ==
    CASE suffix = "+00:00" -> 0
      [] suffix = "+01:00" -> SecondsPerHour
      [] suffix = "-01:00" -> -SecondsPerHour

\* Variant: the offset suffix is dropped instead of applied.
fromisoformat_ignore_offset(s) ==
    DateTime(s[1] * SecondsPerDay + s[2] * SecondsPerHour
               + s[3] * SecondsPerMinute + s[4], 0)

\* datetime.fromisoformat(s) of an offset-bearing text gives an aware
\* datetime.  Aware datetimes are equal, and hash alike, exactly when they
\* denote the same UTC instant, so as a dict key the parsed value is that
\* instant.
fromisoformat(s) ==
    DateTime(s[1] * SecondsPerDay + s[2] * SecondsPerHour
               + s[3] * SecondsPerMinute + s[4] - utcoffset(s[5]), 0)

\* time.replace(second=0, microsecond=0, minute=0)
_troncate_hour(time) == DateTime(time.sec - (time.sec % SecondsPerHour), 0)

\* now.replace(hour=0, minute=0, second=0, microsecond=0)
replace_midnight(t) == DateTime(t.sec - (t.sec % SecondsPerDay), 0)

\* BarryEnergyAPI.one_day
one_day == timedelta(0, 24 * SecondsPerHour, 0)

(* ------------------------- Python values ------------------------------- *)
None == "None"

EmptyDict == [k \in {} |-> None]

\* Variant: an existing key keeps its first value.
dict_set_keep_first(d, k, v) ==
    IF k \in DOMAIN d THEN d
    ELSE [x \in (DOMAIN d) \cup {k} |-> IF x = k THEN v ELSE d[x]]

\* d[k] = v
dict_set(d, k, v) == [x \in (DOMAIN d) \cup {k} |-> IF x = k THEN v ELSE d[x]]

Return(v) == [raised |-> FALSE, exc |-> "", msg |-> "", value |-> v]
Raise(e, m) == [raised |-> TRUE, exc |-> e, msg |-> m, value |-> None]

\* class PriceArea(enum.Enum): each member has a name and a value
PriceArea ==
    { [name |-> "DK_NORDPOOL_SPOT_DK1", value |-> "DK_NORDPOOL_SPOT_DK1"],
      [name |-> "DK_NORDPOOL_SPOT_DK2", value |-> "DK_NORDPOOL_SPOT_DK2"],
      [name |-> "FR_EPEX_SPOT_FR", value |-> "FR_EPEX_SPOT_FR"] }

APIEndpoint == "https://jsonrpc.barry.energy/json-rpc"

getPrice == "co.getbarry.api.v1.OpenApiController.getPrice"
getMeteringPoints == "co.getbarry.api.v1.OpenApiController.getMeteringPoints"
getAggregatedConsumption == "co.getbarry.api.v1.OpenApiController.getAggregatedConsumption"
getTotalKwHPrice == "co.getbarry.api.v1.OpenApiController.getTotalKwHPrice"

(* --------------------------- the network ------------------------------- *)
\* What one requests.post round trip meets: net.connect is "ok" or the
\* description of the connection failure, net.status the HTTP status,
\* net.json_ok whether the body parses as JSON, and net.body the decoded
\* JSON object.

\* Response.raise_for_status(): raises HTTPError for 400 <= status < 600
raise_for_status(status) == status >= 400 /\ status < 600

HTTPErrorText(status) ==
    IF status < 500 THEN "Client Error" ELSE "Server Error"

\* Variant: the status of the response is not checked.
_do_request_unchecked_status(headers, body, net) ==
    LET sent == << [url |-> APIEndpoint, headers |-> headers, json |-> body] >>
        r == IF net.connect # "ok"
               THEN Raise("BarryEnergyException", net.connect)
             ELSE IF ~net.json_ok
               THEN Raise("BarryEnergyException", "Expecting value")
             ELSE Return(net.body)
    IN  [sent |-> sent, raised |-> r.raised, exc |-> r.exc, msg |-> r.msg,
         value |-> r.value]

\* Variant: a failed POST is tried a second time.
_do_request_retry(headers, body, net) ==
    LET one == [url |-> APIEndpoint, headers |-> headers, json |-> body]
        r == IF net.connect # "ok"
               THEN Raise("BarryEnergyException", net.connect)
             ELSE IF raise_for_status(net.status)
               THEN Raise("BarryEnergyException", HTTPErrorText(net.status))
             ELSE IF ~net.json_ok
               THEN Raise("BarryEnergyException", "Expecting value")
             ELSE Return(net.body)
    IN  [sent |-> IF r.raised THEN <<one, one>> ELSE <<one>>,
         raised |-> r.raised, exc |-> r.exc, msg |-> r.msg, value |-> r.value]

\* Variant: a transport failure is raised as a class of its own.
_do_request_transport_class(headers, body, net) ==
    LET sent == << [url |-> APIEndpoint, headers |-> headers, json |-> body] >>
        r == IF net.connect # "ok"
               THEN Raise("TransportError", net.connect)
             ELSE IF raise_for_status(net.status)
               THEN Raise("TransportError", HTTPErrorText(net.status))
             ELSE IF ~net.json_ok
               THEN Raise("TransportError", "Expecting value")
             ELSE Return(net.body)
    IN  [sent |-> sent, raised |-> r.raised, exc |-> r.exc, msg |-> r.msg,
         value |-> r.value]

\* _do_request: the POST is sent; a failure of post, raise_for_status or
\* json is re-raised as BarryEnergyException(str(e)).
_do_request(headers, body, net) ==
    LET sent == << [url |-> APIEndpoint, headers |-> headers, json |-> body] >>
        r == IF net.connect # "ok"
               THEN Raise("BarryEnergyException", net.connect)
             ELSE IF raise_for_status(net.status)
               THEN Raise("BarryEnergyException", HTTPErrorText(net.status))
             ELSE IF ~net.json_ok
               THEN Raise("BarryEnergyException", "Expecting value")
             ELSE Return(net.body)
    IN  [sent |-> sent, raised |-> r.raised, exc |-> r.exc, msg |-> r.msg,
         value |-> r.value]

\* r['error']['data']['message']
error_message(r) ==
    IF "data" \notin DOMAIN r.error THEN Raise("KeyError", "data")
    ELSE IF "message" \notin DOMAIN r.error.data THEN Raise("KeyError", "message")
    ELSE Return(r.error.data.message)

\* Variant: a result field, when present, is returned before the error
\* field is looked at.
_execute_result_first(self, method, params, net) ==
    LET payload == [id |-> 0, jsonrpc |-> "2.0", method |-> method, params |-> params]
        headers == [Authorization |-> <<"Bearer", self.api_token>>,
                    ContentType |-> "application/json"]
        r == _do_request(headers, payload, net)
    IN  IF r.raised THEN r
        ELSE IF "result" \in DOMAIN r.value
          THEN [r EXCEPT !.value = r.value.result]
        ELSE IF "error" \in DOMAIN r.value
          THEN LET msg == error_message(r.value)
               IN  IF msg.raised
                     THEN [r EXCEPT !.raised = TRUE, !.exc = msg.exc,
                                    !.msg = msg.msg, !.value = None]
                     ELSE [r EXCEPT !.raised = TRUE, !.exc = "BarryEnergyException",
                                    !.msg = msg.value, !.value = None]
        ELSE [r EXCEPT !.raised = TRUE, !.exc = "KeyError", !.msg = "result",
                       !.value = None]

\* _execute(method, params)
_execute(self, method, params, net) ==
    LET payload == [id |-> 0, jsonrpc |-> "2.0", method |-> method, params |-> params]
        headers == [Authorization |-> <<"Bearer", self.api_token>>,
                    ContentType |-> "application/json"]
        r == _do_request(headers, payload, net)
    IN  IF r.raised THEN r
        ELSE IF "error" \in DOMAIN r.value
          THEN LET msg == error_message(r.value)
               IN  IF msg.raised
                     THEN [r EXCEPT !.raised = TRUE, !.exc = msg.exc,
                                    !.msg = msg.msg, !.value = None]
                     ELSE [r EXCEPT !.raised = TRUE, !.exc = "BarryEnergyException",
                                    !.msg = msg.value, !.value = None]
        ELSE IF "result" \notin DOMAIN r.value
          THEN [r EXCEPT !.raised = TRUE, !.exc = "KeyError", !.msg = "result",
                         !.value = None]
        ELSE [r EXCEPT !.value = r.value.result]

\* An operation that fails before any request is made.
NotSent(r) == [sent |-> << >>, raised |-> r.raised, exc |-> r.exc, msg |-> r.msg,
               value |-> r.value]

(* ------------------------ domain operations ---------------------------- *)
RECURSIVE spotPricesLoop(_, _, _)
\* for val in r: ret[fromisoformat(val['start'].replace("Z", "+00:00"))] = val['value']
spotPricesLoop(r, i, ret) ==
    IF i > Len(r) THEN ret
    ELSE spotPricesLoop(r, i + 1,
             dict_set(ret, fromisoformat(replaceZ(r[i].start)), r[i].value))

spotPrices(self, market_zone, date_start, date_end, net) ==
    LET params == <<market_zone.name, strftime(date_start), strftime(date_end)>>
        r == _execute(self, getPrice, params, net)
    IN  IF r.raised THEN r
        ELSE [r EXCEPT !.value = spotPricesLoop(r.value, 1, EmptyDict)]

meteringPoints(self, net) == _execute(self, getMeteringPoints, << >>, net)

RECURSIVE consumptionLoop(_, _, _)
\* for val in r: group quantity under mpids[the_mpid][date]
consumptionLoop(r, i, mpids) ==
    IF i > Len(r) THEN mpids
    ELSE LET the_mpid == r[i].mpid
             quantity == r[i].quantity
             date == fromisoformat(replaceZ(r[i].start))
             inner == IF the_mpid \notin DOMAIN mpids THEN EmptyDict
                      ELSE mpids[the_mpid]
         IN  consumptionLoop(r, i + 1,
                 dict_set(mpids, the_mpid, dict_set(inner, date, quantity)))

\* Variant: the range is compared in whole seconds.
range_too_short_whole_seconds(date_start, date_end) ==
    LET d == date_start.sec - date_end.sec
    IN  (IF d < 0 THEN -d ELSE d) < SecondsPerDay

\* abs(date_start - date_end) < timedelta(days=1)
range_too_short(date_start, date_end) ==
    td_lt(td_abs(dt_sub(date_start, date_end)), timedelta(1, 0, 0))

\* Variant: an absent mpid yields an empty mapping (mpids.get(mpid, {})).
meteringPointConsumption_default_empty(self, date_start, date_end, mpid, net) ==
    IF range_too_short(date_start, date_end)
      THEN NotSent(Raise("BarryEnergyException", "date range must be at least one day"))
    ELSE
      LET params == <<strftime(date_start), strftime(date_end)>>
          r == _execute(self, getAggregatedConsumption, params, net)
      IN  IF r.raised THEN r
          ELSE LET mpids == consumptionLoop(r.value, 1, EmptyDict)
               IN  IF mpid = None THEN [r EXCEPT !.value = mpids]
                   ELSE IF mpid \notin DOMAIN mpids
                     THEN [r EXCEPT !.value = EmptyDict]
                   ELSE [r EXCEPT !.value = mpids[mpid]]

meteringPointConsumption(self, date_start, date_end, mpid, net) ==
    IF range_too_short(date_start, date_end)
      THEN NotSent(Raise("BarryEnergyException", "date range must be at least one day"))
    ELSE
      LET params == <<strftime(date_start), strftime(date_end)>>
          r == _execute(self, getAggregatedConsumption, params, net)
      IN  IF r.raised THEN r
          ELSE LET mpids == consumptionLoop(r.value, 1, EmptyDict)
               IN  IF mpid = None THEN [r EXCEPT !.value = mpids]
                   ELSE IF mpid \notin DOMAIN mpids
                     THEN [r EXCEPT !.raised = TRUE, !.exc = "KeyError",
                                    !.msg = mpid, !.value = None]
                   ELSE [r EXCEPT !.value = mpids[mpid]]

\* date_start.astimezone(timezone.utc) of a naive datetime: the fields are
\* taken as local time, tzlocal being the host's UTC offset in seconds.
astimezone_utc(d, tzlocal) == DateTime(d.sec - tzlocal, d.us)

\* Variant: the caller's end is sent as given.
totalkWhPrice_given_end(self, date_start, date_end, mpid, net, tzlocal) ==
    LET start == _troncate_hour(date_start)
        params == <<mpid, strftime(start), strftime(date_end)>>
        r == _execute(self, getTotalKwHPrice, params, net)
    IN  IF r.raised THEN r
        ELSE [r EXCEPT !.value =
                 << [start_date |-> astimezone_utc(start, tzlocal),
                     price |-> r.value.value,
                     currency |-> r.value.currency] >>]

totalkWhPrice(self, date_start, date_end, mpid, net, tzlocal) ==
    LET start == _troncate_hour(date_start)
        end == dt_add(start, timedelta(0, SecondsPerHour, 0))
        params == <<mpid, strftime(start), strftime(end)>>
        r == _execute(self, getTotalKwHPrice, params, net)
    IN  IF r.raised THEN r
        ELSE [r EXCEPT !.value =
                 << [start_date |-> astimezone_utc(start, tzlocal),
                     price |-> r.value.value,
                     currency |-> r.value.currency] >>]

(* --------------------------- clock helpers ----------------------------- *)
\* datetime.utcnow() is the clock value at the moment of the read.
yesterday_start(utcnow) == replace_midnight(utcnow)

\* Variant: the end of the day is its last microsecond.
yesterday_end_last_instant(utcnow) ==
    dt_add(yesterday_start(utcnow), timedelta(0, 24 * SecondsPerHour, -1))

\* yesterday_end reads self.yesterday_start, i.e. the clock, anew.
yesterday_end(utcnow) == dt_add(yesterday_start(utcnow), one_day)

now(utcnow) == _troncate_hour(utcnow)

(* --------------------------- input domains ----------------------------- *)
Tokens == {"token-a", "token-b"}

\* 00:00:00, 14:37:22 and 23:59:59
DaySeconds == {0, 14 * SecondsPerHour + 37 * SecondsPerMinute + 22, SecondsPerDay - 1}
Micros == {0, MicrosPerSecond - 1}

InstantsOn(days) ==
    { DateTime(d * SecondsPerDay + s, u) : d \in days, s \in DaySeconds, u \in Micros }

Instants == InstantsOn(0..MaxDay)

ClockInstants ==
    { DateTime(d * SecondsPerDay + s, MicrosPerSecond - 1) :
        d \in 0..MaxClockDay, s \in DaySeconds \ {0} }

\* Timestamps as the service may write them: 00:00:00Z and 01:00:00+01:00
\* denote one instant, 01:00:00Z another.
WireStarts == { <<0, 0, 0, 0, "Z">>, <<0, 1, 0, 0, "+01:00">>, <<0, 1, 0, 0, "Z">> }

SeqsUpTo(S, n) == UNION { [1..k -> S] : k \in 0..n }

PriceRecords == [start : WireStarts, value : {10, 20}]
ConsumptionRecords == [mpid : {"A", "B"}, quantity : {1, 2}, start : WireStarts]

ResultsOf(method) ==
    CASE method = getPrice -> SeqsUpTo(PriceRecords, MaxRecs)
      [] method = getMeteringPoints -> SeqsUpTo({"mp-1", "mp-2"}, MaxRecs)
      [] method = getAggregatedConsumption -> SeqsUpTo(ConsumptionRecords, MaxRecs)
      [] method = getTotalKwHPrice -> [value : {1, 2}, currency : {"DKK", "EUR"}]

RemoteMessages == {"bad token", "date range must be at least one day"}
ErrorObjects == { [data |-> [message |-> m]] : m \in RemoteMessages } \cup { [code |-> 1] }

Connected(status, ok, body) ==
    [connect |-> "ok", status |-> status, json_ok |-> ok, body |-> body]

\* The round trips the service and the network can produce for a method.
Nets(method) ==
    LET some == CHOOSE r \in ResultsOf(method) : TRUE
    IN  { [connect |-> "Connection refused", status |-> 0, json_ok |-> FALSE,
           body |-> EmptyDict] }
        \cup { Connected(st, TRUE, [error |-> e]) : st \in {404, 500}, e \in ErrorObjects }
        \cup { Connected(200, FALSE, EmptyDict) }
        \cup { Connected(200, TRUE, EmptyDict) }
        \cup { Connected(200, TRUE, [error |-> e]) : e \in ErrorObjects }
        \cup { Connected(200, TRUE, [error |-> e, result |-> some]) : e \in ErrorObjects }
        \cup { Connected(200, TRUE, [result |-> r]) : r \in ResultsOf(method) }

NoResponse == [connect |-> "none", status |-> 0, json_ok |-> FALSE, body |-> EmptyDict]
NoDate == DateTime(-1, 0)

(* ------------------------------ actions -------------------------------- *)
self == [api_token |-> api_token]

\* The caller observes one completed invocation: the requests it posted,
\* the round trip it met, and how it ended.
Completes(name, a, net, r) ==
    /\ op' = name
    /\ args' = a
    /\ posted' = r.sent
    /\ response' = IF r.sent = << >> THEN NoResponse ELSE net
    /\ outcome' = [raised |-> r.raised, exc |-> r.exc, msg |-> r.msg, value |-> r.value]
    /\ UNCHANGED api_token

InitCall ==
    /\ api_token \in Tokens
    /\ op = "none"
    /\ args = << >>
    /\ posted = << >>
    /\ response = NoResponse
    /\ outcome = Return(None)
    /\ hpc = "idle"
    /\ ys = NoDate
    /\ ye = NoDate
    /\ nowv = NoDate
    /\ reads = << >>

Init == InitCall /\ clock = DateTime(0, 0)

CallSpotPrices ==
    /\ op = "none"
    /\ hpc = "idle"
    /\ \E z \in PriceArea, s \in InstantsOn({0}), e \in InstantsOn({0, MaxDay}), net \in Nets(getPrice) :
        /\ Completes("spotPrices", [market_zone |-> z, date_start |-> s, date_end |-> e],
                     net, spotPrices(self, z, s, e, net))
        /\ UNCHANGED <<clock, hpc, ys, ye, nowv, reads>>

CallMeteringPoints ==
    /\ op = "none"
    /\ hpc = "idle"
    /\ \E net \in Nets(getMeteringPoints) :
        /\ Completes("meteringPoints", << >>, net, meteringPoints(self, net))
        /\ UNCHANGED <<clock, hpc, ys, ye, nowv, reads>>

CallMeteringPointConsumption ==
    /\ op = "none"
    /\ hpc = "idle"
    /\ \E s \in InstantsOn({1}), e \in Instants, m \in {None, "A", "C"},
       net \in Nets(getAggregatedConsumption) :
        /\ Completes("meteringPointConsumption",
                     [date_start |-> s, date_end |-> e, mpid |-> m],
                     net, meteringPointConsumption(self, s, e, m, net))
        /\ UNCHANGED <<clock, hpc, ys, ye, nowv, reads>>

CallTotalkWhPrice ==
    /\ op = "none"
    /\ hpc = "idle"
    /\ \E s \in Instants, e \in Instants, m \in {7, 42}, tz \in {0, SecondsPerHour},
       net \in Nets(getTotalKwHPrice) :
        /\ Completes("totalkWhPrice",
                     [date_start |-> s, date_end |-> e, mpid |-> m, tzlocal |-> tz],
                     net, totalkWhPrice(self, s, e, m, net, tz))
        /\ UNCHANGED <<clock, hpc, ys, ye, nowv, reads>>

\* The caller drops the observed result and is free to call again; the
\* client keeps nothing from one invocation to the next.
ReturnToCaller ==
    /\ op # "none"
    /\ hpc = "idle"
    /\ op' = "none"
    /\ args' = << >>
    /\ posted' = << >>
    /\ response' = NoResponse
    /\ outcome' = Return(None)
    /\ UNCHANGED <<api_token, clock, hpc, ys, ye, nowv, reads>>

Next ==
    \/ ReturnToCaller
    \/ CallSpotPrices
    \/ CallMeteringPoints
    \/ CallMeteringPointConsumption
    \/ CallTotalkWhPrice

Spec == Init /\ [][Next]_vars

(* ------------------- the clock helpers and their caller ---------------- *)
\* A caller either reads now, or reads yesterday_start, then yesterday_end,
\* then asks for the consumption between the two; the system clock runs on
\* meanwhile.  reads logs the clock value each of the two helper reads met.
InitClock == InitCall /\ clock \in ClockInstants

Later(a, b) == a.sec > b.sec \/ (a.sec = b.sec /\ a.us > b.us)

Tick ==
    /\ hpc # "called"
    /\ \E t \in ClockInstants : Later(t, clock) /\ clock' = t
    /\ UNCHANGED <<api_token, op, args, posted, response, outcome, hpc, ys, ye, nowv, reads>>

ReadNow ==
    /\ hpc = "idle"
    /\ nowv' = now(clock)
    /\ hpc' = "now_read"
    /\ UNCHANGED <<api_token, op, args, posted, response, outcome, clock, ys, ye, reads>>

ReadYesterdayStart ==
    /\ hpc = "idle"
    /\ ys' = yesterday_start(clock)
    /\ reads' = <<clock>>
    /\ hpc' = "start_read"
    /\ UNCHANGED <<api_token, op, args, posted, response, outcome, clock, ye, nowv>>

ReadYesterdayEnd ==
    /\ hpc = "start_read"
    /\ ye' = yesterday_end(clock)
    /\ reads' = Append(reads, clock)
    /\ hpc' = "pair_read"
    /\ UNCHANGED <<api_token, op, args, posted, response, outcome, clock, ys, nowv>>

CallYesterdayConsumption ==
    /\ hpc = "pair_read"
    /\ op = "none"
    /\ hpc' = "called"
    /\ \E m \in {None, "A"}, net \in Nets(getAggregatedConsumption) :
          Completes("meteringPointConsumption",
                    [date_start |-> ys, date_end |-> ye, mpid |-> m],
                    net, meteringPointConsumption(self, ys, ye, m, net))
    /\ UNCHANGED <<clock, ys, ye, nowv, reads>>

NextClock ==
    \/ Tick
    \/ ReadNow
    \/ ReadYesterdayStart
    \/ ReadYesterdayEnd
    \/ CallYesterdayConsumption

SpecClock == InitClock /\ [][NextClock]_vars

(* ======================= properties of the client ====================== *)
\* What the properties say of an observed invocation, stated from its
\* arguments and the round trip it met.

\* The two instants are at least 24 hours apart, in either order.
AtLeastOneDayApart(a, b) ==
    LET lo == IF Later(a, b) THEN b ELSE a
        hi == IF Later(a, b) THEN a ELSE b
    IN  \/ hi.sec - lo.sec > SecondsPerDay
        \/ hi.sec - lo.sec = SecondsPerDay /\ hi.us >= lo.us

\* The UTC instant a wire timestamp denotes.
InstantOf(w) ==
    LET off == IF w[5] = "+01:00" THEN 1 ELSE IF w[5] = "-01:00" THEN -1 ELSE 0
    IN  DateTime(((w[1] * 24 + w[2] - off) * 60 + w[3]) * 60 + w[4], 0)

ShortRange ==
    op = "meteringPointConsumption"
      /\ ~AtLeastOneDayApart(args.date_start, args.date_end)

TransportFailed ==
    /\ posted # << >>
    /\ \/ response.connect # "ok"
       \/ response.status \in 400..599
       \/ ~response.json_ok

TransportOk == posted # << >> /\ ~TransportFailed

RemoteErrorWithMessage ==
    /\ TransportOk
    /\ "error" \in DOMAIN response.body
    /\ "data" \in DOMAIN response.body.error

ResultOnly ==
    /\ TransportOk
    /\ DOMAIN response.body = {"result"}

Records == response.body.result

MpidAbsent ==
    /\ op = "meteringPointConsumption"
    /\ ResultOnly
    /\ args.mpid # None
    /\ \A i \in 1..Len(Records) : Records[i].mpid # args.mpid

\* The last record of the response with that instant (and metering point).
LastPrice(t) ==
    LET i == CHOOSE i \in 1..Len(Records) :
                 /\ InstantOf(Records[i].start) = t
                 /\ \A j \in (i + 1)..Len(Records) : InstantOf(Records[j].start) # t
    IN  Records[i].value

LastQuantity(m, t) ==
    LET hit(i) == Records[i].mpid = m /\ InstantOf(Records[i].start) = t
        i == CHOOSE i \in 1..Len(Records) :
                 hit(i) /\ \A j \in (i + 1)..Len(Records) : ~hit(j)
    IN  Records[i].quantity

\* The grouping of the consumption records of the response under one mpid.
GroupOf(m) ==
    [t \in { InstantOf(Records[i].start) : i \in { j \in 1..Len(Records) : Records[j].mpid = m } }
        |-> LastQuantity(m, t)]

\* C1: a range shorter than 24 hours, in either order, makes
\* meteringPointConsumption fail with 'date range must be at least one day'
\* with no request posted.
C1_ShortRangeRejectedBeforeAnyRequest ==
    ShortRange =>
        /\ outcome.raised
        /\ outcome.exc = "BarryEnergyException"
        /\ outcome.msg = "date range must be at least one day"
        /\ posted = << >>

\* start 24 hours minus one microsecond before end
C1_Witness ==
    /\ op = "meteringPointConsumption"
    /\ args.date_end.sec - args.date_start.sec = SecondsPerDay
    /\ args.date_start.us > args.date_end.us
    /\ outcome.raised
    /\ posted = << >>

\* The text of the beginning of the hour of instant d, and of the hour after.
HourText(d) ==
    << d.sec \div SecondsPerDay, (d.sec % SecondsPerDay) \div SecondsPerHour, 0, 0, "Z" >>

NextHourText(d) ==
    LET h == HourText(d)
    IN  IF h[2] = 23 THEN << h[1] + 1, 0, 0, 0, "Z" >> ELSE << h[1], h[2] + 1, 0, 0, "Z" >>

\* C2: totalkWhPrice posts getTotalKwHPrice with params [mpid, T, T + 1h],
\* T the beginning of the hour of start, whatever end the caller gave.
C2_TotalkWhPriceOneHourWindow ==
    op = "totalkWhPrice" =>
        /\ Len(posted) = 1
        /\ posted[1].json.method = getTotalKwHPrice
        /\ posted[1].json.params =
              << args.mpid, HourText(args.date_start), NextHourText(args.date_start) >>

\* start at 23:59:59.999999, the caller's end a day earlier
C2_Witness ==
    /\ op = "totalkWhPrice"
    /\ args.date_start.sec % SecondsPerDay = SecondsPerDay - 1
    /\ args.date_start.us # 0
    /\ Later(args.date_start, args.date_end)
    /\ args.date_start.sec - args.date_end.sec > SecondsPerDay
    /\ posted[1].json.params[3][1] = posted[1].json.params[2][1] + 1

\* C3: after a successful round trip whose body has an error field with
\* error.data.message = m, every operation fails with
\* BarryEnergyException(m) and returns nothing, a result field or not.
C3_RemoteErrorSurfaced ==
    (op # "none" /\ RemoteErrorWithMessage) =>
        /\ outcome.raised
        /\ outcome.exc = "BarryEnergyException"
        /\ outcome.msg = response.body.error.data.message

C3_Witness ==
    /\ op = "spotPrices"
    /\ RemoteErrorWithMessage
    /\ "result" \in DOMAIN response.body
    /\ outcome.msg = "bad token"

\* The description of the failure of the round trip.
FailureText ==
    IF response.connect # "ok" THEN response.connect
    ELSE IF response.status \in 400..499 THEN "Client Error"
    ELSE IF response.status \in 500..599 THEN "Server Error"
    ELSE "Expecting value"

C5_ExactlyOneRequestAlways ==
    op # "none" => Len(posted) = 1

\* C5 as amended: a completed invocation has posted exactly one request,
\* except a meteringPointConsumption rejected for its date range, which has
\* posted none.
C5_OneRequestUnlessRejected ==
    op # "none" => Len(posted) = (IF ShortRange THEN 0 ELSE 1)

\* the invocation that failed on an absent mpid posted one request
C5_Witness ==
    /\ MpidAbsent
    /\ outcome.raised
    /\ Len(posted) = 1

\* C6: a successful meteringPointConsumption without mpid returns the
\* mapping whose keys are the mpids of the response, each mapped to the
\* mapping from the parsed starts of its records to the quantity of the
\* last such record; with an mpid that is present it returns that mpid's
\* inner mapping.
C6_ConsumptionGrouping ==
    (op = "meteringPointConsumption" /\ ~outcome.raised) =>
        /\ ResultOnly
        /\ args.mpid = None =>
              /\ DOMAIN outcome.value = { Records[i].mpid : i \in 1..Len(Records) }
              /\ \A m \in DOMAIN outcome.value : outcome.value[m] = GroupOf(m)
        /\ args.mpid # None =>
              /\ \E i \in 1..Len(Records) : Records[i].mpid = args.mpid
              /\ outcome.value = GroupOf(args.mpid)

\* two records of one mpid, written differently, denoting one instant: the
\* later quantity stands
C6_Witness ==
    /\ op = "meteringPointConsumption"
    /\ ~outcome.raised
    /\ args.mpid = None
    /\ Len(Records) = 2
    /\ Records[1].mpid = Records[2].mpid
    /\ Records[1].start # Records[2].start
    /\ Records[1].quantity # Records[2].quantity
    /\ Cardinality(DOMAIN outcome.value[Records[1].mpid]) = 1

\* C7: with an mpid that no record of a successful response bears, the
\* empty response included, meteringPointConsumption fails with KeyError.
C7_AbsentMpidFails ==
    MpidAbsent =>
        /\ outcome.raised
        /\ outcome.exc = "KeyError"
        /\ outcome.msg = args.mpid

C7_Witness ==
    /\ MpidAbsent
    /\ Records = << >>
    /\ outcome.exc = "KeyError"

\* C8 as stated: a successful spotPrices returns as many entries as the
\* response has records.
C8_OneEntryPerRecord ==
    (op = "spotPrices" /\ ~outcome.raised) =>
        Cardinality(DOMAIN outcome.value) = Len(Records)

\* C8 as amended: a successful spotPrices returns one entry per distinct
\* parsed start among the records, holding the value of the last record
\* with that start; it has as many entries as records exactly when the
\* parsed starts are pairwise distinct.
C8_OneEntryPerDistinctStart ==
    (op = "spotPrices" /\ ~outcome.raised) =>
        /\ ResultOnly
        /\ DOMAIN outcome.value = { InstantOf(Records[i].start) : i \in 1..Len(Records) }
        /\ \A t \in DOMAIN outcome.value : outcome.value[t] = LastPrice(t)
        /\ (Cardinality(DOMAIN outcome.value) = Len(Records)) <=>
              \A i, j \in 1..Len(Records) :
                  i # j => InstantOf(Records[i].start) # InstantOf(Records[j].start)

C8_Witness ==
    /\ op = "spotPrices"
    /\ ~outcome.raised
    /\ Len(Records) = 2
    /\ Records[1].start # Records[2].start
    /\ Records[1].value # Records[2].value
    /\ Cardinality(DOMAIN outcome.value) = 1

\* Which of the four causes made the observed invocation fail.
Cause ==
    IF op = "none" THEN "none"
    ELSE IF ShortRange THEN "validation"
    ELSE IF TransportFailed THEN "transport"
    ELSE IF RemoteErrorWithMessage THEN "remote"
    ELSE IF MpidAbsent THEN "notfound"
    ELSE "other"

\* The kind of failure the client raises for each of three causes.
ValidationKind ==
    meteringPointConsumption(self, DateTime(0, 0), DateTime(0, 0), None, NoResponse).exc
TransportKind ==
    meteringPoints(self, CHOOSE n \in Nets(getMeteringPoints) : n.connect # "ok").exc
RemoteKind ==
    meteringPoints(self, Connected(200, TRUE, [error |-> [data |-> [message |-> "bad token"]]])).exc

\* C9 as stated: failures of different causes are of different kinds.
C9_CausesHaveDistinctKinds ==
    /\ Cause = "transport" => outcome.exc # ValidationKind
    /\ Cause = "remote" => outcome.exc \notin {ValidationKind, TransportKind}
    /\ Cause = "notfound" => outcome.exc \notin {ValidationKind, TransportKind, RemoteKind}

\* C9 as amended: validation, transport and remote failures are all
\* BarryEnergyException, apart at most in their message; only the failure
\* on an absent mpid is of another kind, KeyError.
C9_OneKindButForAbsentMpid ==
    /\ Cause \in {"validation", "transport", "remote"} =>
          outcome.raised /\ outcome.exc = "BarryEnergyException"
    /\ Cause = "notfound" =>
          outcome.raised /\ outcome.exc = "KeyError" /\ outcome.exc # ValidationKind

\* a remote failure whose outcome is that of a rejected date range
C9_Witness ==
    /\ Cause = "remote"
    /\ op = "meteringPointConsumption"
    /\ outcome = Raise(ValidationKind, "date range must be at least one day")

\* C10: yesterday_start and yesterday_end, read in that order from a clock
\* that never goes back, are at least 24 hours apart, exactly 24 hours when
\* the clock stood still between the reads, and the consumption asked for
\* between them is never rejected for its range: its request is posted.
C10_YesterdayPairSpansOneDay ==
    /\ hpc \in {"pair_read", "called"} =>
          /\ ~Later(ys, ye)
          /\ AtLeastOneDayApart(ys, ye)
          /\ reads[1] = reads[2] =>
                ye.sec - ys.sec = SecondsPerDay /\ ye.us = ys.us
    /\ hpc = "called" => Len(posted) = 1

\* the clock passed midnight between the two reads
C10_Witness ==
    /\ hpc = "called"
    /\ Len(reads) = 2
    /\ reads[1].sec \div SecondsPerDay < reads[2].sec \div SecondsPerDay
    /\ ye.sec - ys.sec > SecondsPerDay
    /\ Len(posted) = 1

====
